---------------------------- MODULE Spec2Model ----------------------------
(***************************************************************************)
(* A model of reloader/main.py: the Athena query executor (submit, poll,   *)
(* dispatch on the terminal status), the partition query builder, the      *)
(* Event key derivation and one pass of lambda_handler.                    *)
(*                                                                         *)
(* Python str values are sequences of one-character strings, so that       *)
(* f-string building, str(), zfill(), split() and strptime() are computed  *)
(* character by character as the code computes them.                       *)
(***************************************************************************)
EXTENDS Integers, Sequences, FiniteSets, TLC

(***************************************************************************)
(* Bounds of the model.                                                    *)
(***************************************************************************)
\* the longest list of common prefixes the region listing returns
MaxRegions == 2
\* the poll counter (a history variable) saturates at this value
MaxPolls == 3
\* the largest arity of a partition dict handed to the query builder
MaxArity == 4
\* retention periods 0..MaxExpirationDays are tried, besides a few long ones
MaxExpirationDays == 2
\* the most calls of add_partition and drop_partition made on the builder alone
MaxCalls == 3
\* the most partitions a catalog scan lists
MaxRows == 2
\* the most rules of a lifecycle configuration read on its own
MaxRules == 3

(***************************************************************************)
(* Python built-ins on str and int.                                        *)
(***************************************************************************)
DigitChars == <<"0", "1", "2", "3", "4", "5", "6", "7", "8", "9">>

IsDigit(c) == \E i \in 1..10 : DigitChars[i] = c

DigitVal(c) == (CHOOSE i \in 1..10 : DigitChars[i] = c) - 1

RECURSIVE str(_)
\* str(n) of a non-negative int
str(n) == IF n < 10 THEN <<DigitChars[n + 1]>>
          ELSE str(n \div 10) \o <<DigitChars[(n % 10) + 1]>>

RECURSIVE int(_)
\* int(s) of a non-empty string of digits
int(s) == IF Len(s) = 1 THEN DigitVal(s[1])
          ELSE 10 * int(SubSeq(s, 1, Len(s) - 1)) + DigitVal(s[Len(s)])

RECURSIVE zfill(_, _)
\* s.zfill(width) of an unsigned string
zfill(s, width) == IF Len(s) >= width THEN s ELSE zfill(<<"0">> \o s, width)

RECURSIVE split(_, _)
\* s.split(sep) for a one-character separator
split(s, sep) ==
    IF \A i \in 1..Len(s) : s[i] # sep THEN <<s>>
    ELSE LET i == CHOOSE j \in 1..Len(s) :
                      s[j] = sep /\ \A k \in 1..(j - 1) : s[k] # sep
         IN  <<SubSeq(s, 1, i - 1)>> \o split(SubSeq(s, i + 1, Len(s)), sep)

(***************************************************************************)
(* datetime: the proleptic Gregorian calendar as CPython computes it.      *)
(***************************************************************************)
_is_leap(year) == year % 4 = 0 /\ (year % 100 # 0 \/ year % 400 = 0)

_DAYS_IN_MONTH == <<31, 28, 31, 30, 31, 30, 31, 31, 30, 31, 30, 31>>

\* mutant: February has 28 days in every year
_days_in_month_no_leap(year, month) == _DAYS_IN_MONTH[month]

_days_in_month(year, month) ==
    IF month = 2 /\ _is_leap(year) THEN 29 ELSE _DAYS_IN_MONTH[month]

_days_before_year(year) ==
    LET y == year - 1
    IN  y * 365 + (y \div 4) - (y \div 100) + (y \div 400)

RECURSIVE _days_before_month(_, _)
_days_before_month(year, month) ==
    IF month = 1 THEN 0
    ELSE _days_before_month(year, month - 1) + _days_in_month(year, month - 1)

\* date.toordinal(): 1 for 0001-01-01
_ymd2ord(year, month, day) ==
    _days_before_year(year) + _days_before_month(year, month) + day

\* date.fromordinal(n)
_ord2ymd(n) ==
    LET n0   == n - 1
        n400 == n0 \div 146097
        r400 == n0 % 146097
        n100 == r400 \div 36524
        r100 == r400 % 36524
        n4   == r100 \div 1461
        r4   == r100 % 1461
        n1   == r4 \div 365
        r1   == r4 % 365
        year == n400 * 400 + n100 * 100 + n4 * 4 + n1 + 1
    IN  IF n1 = 4 \/ n100 = 4
        THEN [year |-> year - 1, month |-> 12, day |-> 31]
        ELSE LET month == CHOOSE m \in 1..12 :
                              /\ _days_before_month(year, m) <= r1
                              /\ r1 < _days_before_month(year, m) + _days_in_month(year, m)
             IN  [year |-> year, month |-> month,
                  day |-> r1 - _days_before_month(year, month) + 1]

\* datetime - timedelta(days=days): the time of day is kept, the date moves
DatetimeMinusDays(dt, days) ==
    LET d == _ord2ymd(_ymd2ord(dt.year, dt.month, dt.day) - days)
    IN  [dt EXCEPT !.year = d.year, !.month = d.month, !.day = d.day]


(***************************************************************************)
(* Python values that may be None, and the outcome of a call: a value      *)
(* returned or an exception raised.                                        *)
(***************************************************************************)
PyNone == [type |-> "NoneType"]

PyInt(n) == [type |-> "int", v |-> n]

Return(v) == [raised |-> "", value |-> v]

Raise(exc) == [raised |-> exc]

(***************************************************************************)
(* datetime.strptime(timestamp, "%Y-%m-%dT%H:%M:%S%fZ"): the format is     *)
(* compiled to a regular expression whose directives are ordered           *)
(* alternatives, matched with backtracking against the whole string.       *)
(***************************************************************************)
TimeFormat == <<"%Y", "-", "%m", "-", "%d", "T", "%H", ":", "%M", ":", "%S", "%f", "Z">>

Directives == {"%Y", "%m", "%d", "%H", "%M", "%S", "%f"}

\* the lengths a directive's alternatives can match, longest first
DirectiveLens(d) ==
    CASE d = "%Y" -> <<4>>
      [] d = "%f" -> <<6, 5, 4, 3, 2, 1>>
      [] OTHER    -> <<2, 1>>

InRange(c, lo, hi) == \E n \in lo..hi : DigitChars[n + 1] = c

\* whether the text t is matched by one alternative of directive d
DirectiveAccepts(d, t) ==
    CASE d = "%Y" -> \A i \in 1..4 : IsDigit(t[i])
      [] d = "%f" -> \A i \in 1..Len(t) : IsDigit(t[i])
      [] d = "%m" -> IF Len(t) = 2
                     THEN \/ t[1] = "1" /\ InRange(t[2], 0, 2)
                          \/ t[1] = "0" /\ InRange(t[2], 1, 9)
                     ELSE InRange(t[1], 1, 9)
      [] d = "%d" -> IF Len(t) = 2
                     THEN \/ t[1] = "3" /\ InRange(t[2], 0, 1)
                          \/ InRange(t[1], 1, 2) /\ IsDigit(t[2])
                          \/ t[1] \in {"0", " "} /\ InRange(t[2], 1, 9)
                     ELSE InRange(t[1], 1, 9)
      [] d = "%H" -> IF Len(t) = 2
                     THEN \/ t[1] = "2" /\ InRange(t[2], 0, 3)
                          \/ InRange(t[1], 0, 1) /\ IsDigit(t[2])
                     ELSE IsDigit(t[1])
      [] d = "%M" -> IF Len(t) = 2
                     THEN InRange(t[1], 0, 5) /\ IsDigit(t[2])
                     ELSE IsDigit(t[1])
      [] d = "%S" -> IF Len(t) = 2
                     THEN \/ t[1] = "6" /\ InRange(t[2], 0, 1)
                          \/ InRange(t[1], 0, 5) /\ IsDigit(t[2])
                     ELSE IsDigit(t[1])

\* literal characters of the format match ignoring case
LiteralMatches(c, lit) ==
    \/ c = lit
    \/ lit = "T" /\ c = "t"
    \/ lit = "Z" /\ c = "z"

NoMatch == [ok |-> FALSE]

\* a match of a directive on the text g, followed by the match rest
Matched(g, rest) == [ok |-> TRUE, groups |-> <<g>> \o rest.groups]

RECURSIVE RegexMatch(_, _, _)
RECURSIVE MatchDirective(_, _, _, _)

\* the directive TimeFormat[k] at position i of s: the first of the lengths
\* DirectiveLens(TimeFormat[k])[j..] on which the directive matches and the
\* rest of the format matches the rest of s
MatchDirective(s, k, i, j) ==
    IF j > Len(DirectiveLens(TimeFormat[k])) THEN NoMatch
    ELSE IF /\ i + DirectiveLens(TimeFormat[k])[j] - 1 <= Len(s)
            /\ DirectiveAccepts(TimeFormat[k],
                                SubSeq(s, i, i + DirectiveLens(TimeFormat[k])[j] - 1))
            /\ RegexMatch(s, k + 1, i + DirectiveLens(TimeFormat[k])[j]).ok
         THEN Matched(SubSeq(s, i, i + DirectiveLens(TimeFormat[k])[j] - 1),
                      RegexMatch(s, k + 1, i + DirectiveLens(TimeFormat[k])[j]))
         ELSE MatchDirective(s, k, i, j + 1)

\* match the format items k.. against s from position i to the end of s:
\* NoMatch, or the directive texts in format order
RegexMatch(s, k, i) ==
    IF k > Len(TimeFormat)
    THEN IF i = Len(s) + 1 THEN [ok |-> TRUE, groups |-> <<>>] ELSE NoMatch
    ELSE IF TimeFormat[k] \in Directives
         THEN MatchDirective(s, k, i, 1)
         ELSE IF i <= Len(s) /\ LiteralMatches(s[i], TimeFormat[k])
              THEN RegexMatch(s, k + 1, i + 1)
              ELSE NoMatch

RECURSIVE PadRight(_, _)
\* s += "0" * (width - len(s))
PadRight(s, width) == IF Len(s) >= width THEN s ELSE PadRight(s \o <<"0">>, width)

\* the integer a directive text stands for (%d may carry a leading space)
GroupInt(t) == IF t[1] = " " THEN int(Tail(t)) ELSE int(t)

\* the datetime of the directive texts g
DatetimeOf(g) ==
    [type |-> "datetime",
     year |-> GroupInt(g[1]), month |-> GroupInt(g[2]), day |-> GroupInt(g[3]),
     hour |-> GroupInt(g[4]), minute |-> GroupInt(g[5]), second |-> GroupInt(g[6]),
     microsecond |-> int(PadRight(g[7], 6))]

\* the datetime constructor refuses fields out of range
Datetime(dt) ==
    IF dt.year < 1 \/ dt.day > _days_in_month(dt.year, dt.month) \/ dt.second > 59
    THEN Raise("ValueError")
    ELSE Return(dt)

\* the datetime of a match, ValueError for no match
FromMatch(m) == IF m.ok THEN Datetime(DatetimeOf(m.groups)) ELSE Raise("ValueError")

\* datetime.strptime: ValueError when the string does not match the format
\* or the fields are no valid date and time (the match is made once, and the
\* datetime is built from it)
strptime(timestamp) ==
    CHOOSE r \in {FromMatch(m) : m \in {RegexMatch(timestamp, 1, 1)}} : TRUE

(***************************************************************************)
(* class Event                                                             *)
(***************************************************************************)
\* Event._convert_to_datetime
_convert_to_datetime(timestamp) ==
    IF Len(timestamp) > 0 THEN strptime(timestamp) ELSE Return(PyNone)

\* k.replace("-", "_") on the keys an event carries
AttrName(k) == IF k = "detail-type" THEN "detail_type" ELSE k

\* the value an item of the event dict is stored with
Converted(item) ==
    IF item[1] = "time" THEN _convert_to_datetime(item[2]) ELSE Return(item[2])

\* setattr(self, name, v)
setattr(self, name, v) ==
    [a \in DOMAIN self \cup {name} |-> IF a = name THEN v ELSE self[a]]

RECURSIVE EventInit(_, _)
RECURSIVE EventInitItem(_, _, _)

\* one turn of the loop of Event.__init__, c the converted value of items[1]
EventInitItem(items, self, c) ==
    IF c.raised # "" THEN c
    ELSE EventInit(Tail(items), setattr(self, AttrName(items[1][1]), c.value))

\* Event.__init__: the items of the event dict, in order, become attributes of
\* self; the value under "time" is converted first
EventInit(items, self) ==
    IF items = <<>> THEN Return(self)
    ELSE EventInitItem(items, self, Converted(items[1]))

\* the attribute self.time as the properties read it: AttributeError when the
\* event had no "time" item, or when it is None
TimeOf(self) ==
    IF "time" \in DOMAIN self /\ self["time"].type = "datetime"
    THEN Return(self["time"])
    ELSE Raise("AttributeError")

\* Event.event_month
event_month(self) ==
    LET t == TimeOf(self)
    IN  IF t.raised # "" THEN t ELSE Return(zfill(str(t.value.month), 2))

\* Event.event_year
event_year(self) ==
    LET t == TimeOf(self)
    IN  IF t.raised # "" THEN t ELSE Return(str(t.value.year))

\* Event.event_day
event_day(self) ==
    LET t == TimeOf(self)
    IN  IF t.raised # "" THEN t ELSE Return(zfill(str(t.value.day), 2))


(***************************************************************************)
(* The process configuration (environment variables).                      *)
(***************************************************************************)
bucket == <<"b", "k", "t">>

account_id == <<"1", "2">>

table_name == <<"c", "t">>

output_loc == <<"s", "3", ":", "/", "/", "o", "/">>

(***************************************************************************)
(* class TablePartition.  A partition dict is the sequence of its          *)
(* <<key, value>> items in insertion order.                                *)
(***************************************************************************)
S_ADD == <<"A", "D", "D">>

S_DROP == <<"D", "R", "O", "P">>

S_IF_NOT_EXISTS == <<"I", "F", " ", "N", "O", "T", " ", "E", "X", "I", "S", "T", "S">>

S_IF_EXISTS == <<"I", "F", " ", "E", "X", "I", "S", "T", "S">>

S_ALTER_TABLE == <<"A", "L", "T", "E", "R", " ", "T", "A", "B", "L", "E", " ">>

S_PARTITION == <<" ", "P", "A", "R", "T", "I", "T", "I", "O", "N", " ", "(">>

S_LOCATION == <<" ", "L", "O", "C", "A", "T", "I", "O", "N", " ", "'">>

\* mutant: the location starts with bucket_loc
S_no_scheme == <<>>

S_s3 == <<"s", "3", ":", "/", "/">>

RECURSIVE PartitionLoop_comma(_, _, _, _, _)
\* mutant: every item is followed by a comma, the last one too
PartitionLoop_comma(items, i, n, partition_str, location_statement) ==
    IF items = <<>>
    THEN [partition_str |-> partition_str, location_statement |-> location_statement]
    ELSE PartitionLoop_comma(Tail(items), i + 1, n,
                             partition_str \o items[1][1] \o <<"=", "'">>
                             \o items[1][2] \o <<"'", ",">>,
                             location_statement \o items[1][2] \o <<"/">>)

RECURSIVE PartitionLoop(_, _, _, _, _)
\* the for loop of _build_partition_query over partition.items(): every item
\* but the one met with i = n is followed by a comma, and i advances only
\* past the items that got one
PartitionLoop(items, i, n, partition_str, location_statement) ==
    IF items = <<>>
    THEN [partition_str |-> partition_str, location_statement |-> location_statement]
    ELSE LET k == items[1][1]
             v == items[1][2]
         IN  IF i = n
             THEN PartitionLoop(Tail(items), i, n,
                                partition_str \o k \o <<"=", "'">> \o v \o <<"'">>,
                                location_statement \o v \o <<"/">>)
             ELSE PartitionLoop(Tail(items), i + 1, n,
                                partition_str \o k \o <<"=", "'">> \o v \o <<"'", ",">>,
                                location_statement \o v \o <<"/">>)

\* mutant: the LOCATION is appended whatever the action
_build_partition_query_located(table, bucket_loc, partition, action_string) ==
    IF action_string # S_ADD /\ action_string # S_DROP
    THEN Raise("ValueError")
    ELSE LET action_conditional ==
                 IF action_string = S_ADD THEN S_IF_NOT_EXISTS ELSE S_IF_EXISTS
             loop  == PartitionLoop(partition, 0, Len(partition) - 1, <<>>,
                                    S_s3 \o bucket_loc \o <<"/">>)
         IN  Return(S_ALTER_TABLE \o table \o <<" ">> \o action_string \o <<" ">>
                    \o action_conditional \o S_PARTITION \o loop.partition_str
                    \o <<")">> \o S_LOCATION \o loop.location_statement \o <<"'">>)

\* mutant: every action_string but ADD is taken for DROP
_build_partition_query_lenient(table, bucket_loc, partition, action_string) ==
    LET action_conditional ==
            IF action_string = S_ADD THEN S_IF_NOT_EXISTS ELSE S_IF_EXISTS
        loop  == PartitionLoop(partition, 0, Len(partition) - 1, <<>>,
                               S_s3 \o bucket_loc \o <<"/">>)
        query == S_ALTER_TABLE \o table \o <<" ">> \o action_string \o <<" ">>
                 \o action_conditional \o S_PARTITION \o loop.partition_str
                 \o <<")">>
    IN  IF action_string = S_ADD
        THEN Return(query \o S_LOCATION \o loop.location_statement \o <<"'">>)
        ELSE Return(query)

\* mutant: the query carries no IF [NOT] EXISTS
_build_partition_query_unguarded(table, bucket_loc, partition, action_string) ==
    IF action_string # S_ADD /\ action_string # S_DROP
    THEN Raise("ValueError")
    ELSE LET loop  == PartitionLoop(partition, 0, Len(partition) - 1, <<>>,
                                    S_s3 \o bucket_loc \o <<"/">>)
             query == S_ALTER_TABLE \o table \o <<" ">> \o action_string
                      \o S_PARTITION \o loop.partition_str \o <<")">>
         IN  IF action_string = S_ADD
             THEN Return(query \o S_LOCATION \o loop.location_statement \o <<"'">>)
             ELSE Return(query)

\* TablePartition._build_partition_query
_build_partition_query(table, bucket_loc, partition, action_string) ==
    IF action_string # S_ADD /\ action_string # S_DROP
    THEN Raise("ValueError")
    ELSE LET action_conditional ==
                 IF action_string = S_ADD THEN S_IF_NOT_EXISTS ELSE S_IF_EXISTS
             loop  == PartitionLoop(partition, 0, Len(partition) - 1, <<>>,
                                    S_s3 \o bucket_loc \o <<"/">>)
             query == S_ALTER_TABLE \o table \o <<" ">> \o action_string \o <<" ">>
                      \o action_conditional \o S_PARTITION \o loop.partition_str
                      \o <<")">>
         IN  IF action_string = S_ADD
             THEN Return(query \o S_LOCATION \o loop.location_statement \o <<"'">>)
             ELSE Return(query)

\* the query TablePartition.add_partition hands to execute_and_wait
add_partition_query(table, bucket_loc, partition) ==
    _build_partition_query(table, bucket_loc, partition, S_ADD)

\* the query TablePartition.drop_partition hands to execute_and_wait
drop_partition_query(table, bucket_loc, partition) ==
    _build_partition_query(table, bucket_loc, partition, S_DROP)

(***************************************************************************)
(* class S3Helper                                                          *)
(***************************************************************************)
\* mutant: only the first rule of the list is looked at
_parse_lifeycle_rules_for_expiration_first(rule_list) ==
    IF rule_list = <<>> THEN PyNone
    ELSE LET rule == rule_list[1]
             expiration == IF "Expiration" \in DOMAIN rule
                           THEN rule["Expiration"] ELSE <<>>
         IN  IF "Days" \in DOMAIN expiration
             THEN PyInt(expiration["Days"])
             ELSE PyNone

RECURSIVE _parse_lifeycle_rules_for_expiration(_)
\* the Days of the first rule that has Expiration.Days, else None
_parse_lifeycle_rules_for_expiration(rule_list) ==
    IF rule_list = <<>> THEN PyNone
    ELSE LET rule == rule_list[1]
             expiration == IF "Expiration" \in DOMAIN rule
                           THEN rule["Expiration"] ELSE <<>>
         IN  IF "Days" \in DOMAIN expiration
             THEN PyInt(expiration["Days"])
             ELSE _parse_lifeycle_rules_for_expiration(Tail(rule_list))

\* mutant: a failed lookup gives a retention of one day
_get_bucket_lifecycle_expiration_default(reply) ==
    IF reply.error THEN PyInt(1)
    ELSE _parse_lifeycle_rules_for_expiration(
             IF "Rules" \in DOMAIN reply THEN reply["Rules"] ELSE <<>>)

\* S3Helper._get_bucket_lifecycle_expiration, given the service's reply
_get_bucket_lifecycle_expiration(reply) ==
    IF reply.error THEN PyNone
    ELSE _parse_lifeycle_rules_for_expiration(
             IF "Rules" \in DOMAIN reply THEN reply["Rules"] ELSE <<>>)

RECURSIVE _retrieve_regions(_)
\* the fourth "/"-separated segment of every prefix that has one
_retrieve_regions(prefixes) ==
    IF prefixes = <<>> THEN <<>>
    ELSE LET prefix == prefixes[1]
             rest   == _retrieve_regions(Tail(prefixes))
         IN  IF "Prefix" \in DOMAIN prefix /\ Len(prefix["Prefix"]) > 0
             THEN LET splitter == split(prefix["Prefix"], "/")
                  IN  IF Len(splitter) >= 4 THEN <<splitter[4]>> \o rest ELSE rest
             ELSE rest

\* S3Helper._get_regions, given the service's reply
_get_regions(reply) ==
    IF reply.error THEN <<>> ELSE _retrieve_regions(reply["CommonPrefixes"])

\* truth value of an Optional[int], as "if helper.expiration_after_days:" takes it
Truthy(x) == x.type = "int" /\ x.v # 0


(***************************************************************************)
(* class Athena: the parts of it that touch no service.                    *)
(***************************************************************************)
Terminal == {"SUCCEEDED", "FAILED", "CANCELLED"}

\* the states the query service reports for an execution
States == {"QUEUED", "RUNNING"} \cup Terminal

\* mutant: the status is not lower-cased before the handler is looked up
lower_missing(status) == status

\* status.lower()
lower(status) ==
    CASE status = "SUCCEEDED" -> "succeeded"
      [] status = "FAILED"    -> "failed"
      [] status = "CANCELLED" -> "cancelled"
      [] status = "QUEUED"    -> "queued"
      [] status = "RUNNING"   -> "running"
      [] OTHER                -> status

\* getattr(self, name, None): the handler methods of Athena
getattr(name) ==
    IF name \in {"succeeded", "cancelled", "failed"} THEN name ELSE "None"

\* Athena._process_execution_response
_process_execution_response(execution_response) ==
    IF /\ "QueryExecutionId" \in DOMAIN execution_response
       /\ Len(execution_response["QueryExecutionId"]) > 0
    THEN [execution_id |-> execution_response["QueryExecutionId"],
          execution_res_loc |-> output_loc \o execution_response["QueryExecutionId"]
                                \o <<".", "t", "x", "t">>]
    ELSE [execution_id |-> <<>>, execution_res_loc |-> <<>>]

\* the record the handlers succeeded, cancelled and failed log
JsonLog(response, query, status, execution_response, current_time, resp) ==
    [response |-> response, query |-> query, status |-> status,
     execution_id |-> execution_response.execution_id,
     current_time |-> current_time,
     x_amzn_request_id |-> resp.ResponseMetadata.RequestId]

S_failed == <<"Q", "u", "e", "r", "y", " ", "f", "a", "i", "l", "e", "d", ".", " ", "Q", "u", "e", "r", "y", " ", "E", "x", "e", "c", "u", "t", "i", "o", "n", " ", "I", "D", ":", " ">>

S_cancelled == <<"Q", "u", "e", "r", "y", " ", "c", "a", "n", "c", "e", "l", "l", "e", "d", ".", " ", "Q", "u", "e", "r", "y", " ", "E", "x", "e", "c", "u", "t", "i", "o", "n", " ", "I", "D", ":", " ">>

\* Athena.succeeded: logs, then asks for the results
succeeded(execution_response, query, current_time, resp) ==
    [next |-> "results",
     log  |-> <<JsonLog("Query succeeded", query, "success", execution_response,
                        current_time, resp)>>]

\* mutant: the handler of CANCELLED logs, then asks for the results
cancelled_fetching(execution_response, query, current_time, resp) ==
    [next |-> "results",
     log  |-> <<JsonLog("Query cancelled", query, "failed", execution_response,
                        current_time, resp)>>]

\* Athena.cancelled: logs, then raises
cancelled(execution_response, query, current_time, resp) ==
    [next |-> "raise",
     log  |-> <<JsonLog("Query cancelled", query, "failed", execution_response,
                        current_time, resp)>>,
     exception |-> [type |-> "Exception",
                    msg |-> S_cancelled \o execution_response.execution_id]]

\* mutant: the handler of FAILED logs and returns instead of raising
failed_silently(execution_response, query, current_time, resp) ==
    [next |-> "empty",
     log  |-> <<JsonLog("Query failed", query, "failed", execution_response,
                        current_time, resp)>>]

\* Athena.failed: logs, then raises
failed(execution_response, query, current_time, resp) ==
    [next |-> "raise",
     log  |-> <<JsonLog("Query failed", query, "failed", execution_response,
                        current_time, resp)>>,
     exception |-> [type |-> "Exception",
                    msg |-> S_failed \o execution_response.execution_id]]

\* execute_and_wait from the return of wait_for_completion on: the handler
\* named by the lower-cased status is looked up and called; calling the None
\* that getattr gives for any other name is a TypeError
Dispatch(execution_response, query, current_time, resp) ==
    IF resp = PyNone THEN [next |-> "empty", log |-> <<>>]
    ELSE LET status  == resp.QueryExecution.Status.State
             handler == getattr(lower(status))
         IN  CASE status = "" -> [next |-> "empty", log |-> <<>>]
               [] handler = "succeeded" ->
                      succeeded(execution_response, query, current_time, resp)
               [] handler = "cancelled" ->
                      cancelled(execution_response, query, current_time, resp)
               [] handler = "failed" ->
                      failed(execution_response, query, current_time, resp)
               [] OTHER -> [next |-> "raise", log |-> <<>>,
                            exception |-> [type |-> "TypeError", msg |-> <<>>]]


(***************************************************************************)
(* lambda_handler: the computation between two service calls.              *)
(***************************************************************************)
S_region == <<"r", "e", "g", "i", "o", "n">>

S_year == <<"y", "e", "a", "r">>

S_month == <<"m", "o", "n", "t", "h">>

S_day == <<"d", "a", "y">>

\* bucket_loc = f"{bucket}/AWSLogs/{account_id}/CloudTrail"
bucket_loc ==
    bucket \o <<"/", "A", "W", "S", "L", "o", "g", "s", "/">> \o account_id
    \o <<"/", "C", "l", "o", "u", "d", "T", "r", "a", "i", "l">>

NoException == [type |-> "", msg |-> <<>>]

\* the dict new_partition of the loop body; reading the event's properties
\* raises when the event has no usable time
new_partition(region, ev) ==
    LET y == event_year(ev)
        m == event_month(ev)
        d == event_day(ev)
    IN  IF y.raised # "" THEN y
        ELSE Return(<< <<S_region, region>>, <<S_year, y.value>>,
                       <<S_month, m.value>>, <<S_day, d.value>> >>)

\* drop_after_expire_date = event.time - timedelta(days=expiration_after_days)
drop_after_expire_date(ev, days) == DatetimeMinusDays(ev["time"], days)

\* the dict old_partition of the loop body
old_partition(region, ev, days) ==
    LET date == drop_after_expire_date(ev, days)
    IN  << <<S_region, region>>, <<S_year, str(date.year)>>,
           <<S_month, zfill(str(date.month), 2)>>,
           <<S_day, zfill(str(date.day), 2)>> >>

\* where lambda_handler stands next, and with which locals
Ctl(pc_, idx_, action_, partition_, query_, exception_, result_) ==
    [pc |-> pc_, idx |-> idx_, action |-> action_, partition |-> partition_,
     query |-> query_, exception |-> exception_, result |-> result_]

\* the head of "for region in helper.regions" for the i-th region: return True
\* after the last one, else build the partition and the ADD query
LoopHead(i, regs, ev) ==
    IF i > Len(regs)
    THEN Ctl("returned", i, <<>>, <<>>, <<>>, NoException, "True")
    ELSE LET np == new_partition(regs[i], ev)
         IN  IF np.raised # ""
             THEN Ctl("raised", i, <<>>, <<>>, <<>>,
                      [type |-> np.raised, msg |-> <<>>], "none")
             ELSE Ctl("start_query", i, S_ADD, np.value,
                      add_partition_query(table_name, bucket_loc, np.value).value,
                      NoException, "none")

\* the rest of the loop body once add_partition returned and
\* helper.expiration_after_days is known
AfterAdd(i, regs, ev, expiration_after_days) ==
    IF Truthy(expiration_after_days)
    THEN LET op == old_partition(regs[i], ev, expiration_after_days.v)
         IN  Ctl("start_query", i, S_DROP, op,
                 drop_partition_query(table_name, bucket_loc, op).value,
                 NoException, "none")
    ELSE LoopHead(i + 1, regs, ev)

(***************************************************************************)
(* What the services may answer.                                           *)
(***************************************************************************)
ClientError == [type |-> "ClientError", msg |-> <<>>]

\* sequences without repetition of at most n elements of S
DistinctSeqs(S, n) ==
    UNION {{q \in [1..k -> S] : \A a, b \in 1..k : a # b => q[a] # q[b]} : k \in 0..n}

Prefix(region) ==
    [Prefix |-> <<"A", "W", "S", "L", "o", "g", "s", "/">> \o account_id
                \o <<"/", "C", "l", "o", "u", "d", "T", "r", "a", "i", "l", "/">>
                \o region \o <<"/">>]

\* common prefixes list_objects may return; the last has no region segment
PrefixPool ==
    {Prefix(<<"u", "s", "-", "w", "e", "s", "t", "-", "2">>),
     Prefix(<<"u", "s", "-", "e", "a", "s", "t", "-", "1">>),
     Prefix(<<"e", "u", "-", "1">>),
     [Prefix |-> <<"A", "W", "S", "L", "o", "g", "s", "/">>]}

ListObjectsReplies ==
    {[error |-> TRUE]}
    \cup {[error |-> FALSE, CommonPrefixes |-> ps] : ps \in DistinctSeqs(PrefixPool, MaxRegions)}

ExpirationRule(days) == [ID |-> "expire", Expiration |-> [Days |-> days]]

TransitionRule == [ID |-> "archive"]

\* the retention periods tried
ExpirationDays == (0..MaxExpirationDays) \cup {31, 366}

RuleLists ==
    {<<>>, <<TransitionRule>>, <<TransitionRule, ExpirationRule(1)>>,
     <<ExpirationRule(2), ExpirationRule(31)>>}
    \cup {<<ExpirationRule(d)>> : d \in ExpirationDays}

LifecycleReplies ==
    {[error |-> TRUE]} \cup {[error |-> FALSE, Rules |-> rl] : rl \in RuleLists}

ExecutionIds == {<<"q", "1">>, <<"q", "2">>}

StartQueryReplies ==
    {[error |-> TRUE]} \cup {[error |-> FALSE, QueryExecutionId |-> id] : id \in ExecutionIds}

QueryExecution(state) ==
    [QueryExecution |-> [Status |-> [State |-> state]],
     ResponseMetadata |-> [RequestId |-> "req"]]

GetQueryExecutionReplies ==
    {[error |-> TRUE]} \cup {[error |-> FALSE, resp |-> QueryExecution(st)] : st \in States}

ResultPages == {<<>>, <<[ResultSet |-> [Rows |-> <<>>]]>>}

GetQueryResultsReplies ==
    {[error |-> TRUE]} \cup {[error |-> FALSE, pages |-> ps] : ps \in ResultPages}

\* the trigger payloads tried: timer events whose time is well formed, has
\* fractional seconds, is no date, is no timestamp or is empty, and an event
\* without time
Timestamps ==
    {<<"2", "0", "2", "0", "-", "0", "3", "-", "0", "1", "T", "1", "0", ":", "0", "0", ":", "0", "0", "Z">>,
     <<"2", "0", "2", "1", "-", "0", "1", "-", "0", "1", "T", "0", "0", ":", "0", "0", ":", "0", "0", "Z">>,
     <<"2", "0", "2", "0", "-", "0", "9", "-", "1", "5", "T", "1", "0", ":", "0", "0", ":", "0", "0", "Z">>,
     <<"2", "0", "2", "0", "-", "0", "9", "-", "1", "5", "T", "1", "0", ":", "0", "0", ":", "0", "0", ".", "0", "0", "0", "Z">>,
     <<"2", "0", "2", "0", "-", "0", "2", "-", "3", "0", "T", "1", "0", ":", "0", "0", ":", "0", "0", "Z">>,
     <<"j", "u", "n", "k">>,
     <<>>}

Events ==
    {<< <<"detail-type", <<"S">> >>, <<"time", ts>> >> : ts \in Timestamps}
    \cup {<< <<"detail-type", <<"S">> >> >>}

\* what datetime.now() may give
WallClocks ==
    {[type |-> "datetime", year |-> 2022, month |-> 6, day |-> 30,
      hour |-> 12, minute |-> 0, second |-> 0, microsecond |-> 0]}


(***************************************************************************)
(* One pass of lambda_handler.  A step is one service call together with   *)
(* the computation that follows it up to the next service call.            *)
(***************************************************************************)
VARIABLES
    payload,             \* the event dict lambda_handler is called with
    now,                 \* the wall clock
    pc,                  \* the service call lambda_handler makes next
    event,               \* the attributes of the Event object
    regions,             \* helper.regions
    expiration,          \* helper.expiration_after_days, once it was read
    failedLookups,       \* history: the S3 calls of the helper that failed
    idx,                 \* the place in helper.regions of the loop's region
    action,              \* action_string of the query in hand
    partition,           \* the partition dict of the query in hand
    query,               \* the query handed to execute_and_wait
    exception,           \* the exception that left lambda_handler
    result,              \* what lambda_handler returned
    execution_response,  \* execute_and_wait: the ExecutionResponse
    status,              \* wait_for_completion: status
    resp,                \* wait_for_completion: resp
    outcome,             \* how the last execute_and_wait ended
    waitReturn,          \* what the last wait_for_completion returned
    startReply,          \* history: the answer to the latest start_query_execution
    fetched,             \* history: the pages of the latest get_query_results
    serviceError,        \* history: a service call of this execute_and_wait failed
    lastPoll,            \* history: the response of the latest status call
    polls,               \* history: status calls of this wait, up to MaxPolls
    sawTerminal,         \* history: a status call of this wait gave a terminal state
    polledAfterTerminal, \* history: a status call was made after that
    issued,              \* history: the queries handed to the service, in order
    log,                 \* the records logged
    builder_bucket_loc,  \* the query builder on its own: the argument bucket_loc
    builder_partition,   \* the query builder on its own: the argument partition
    built,               \* what the latest _build_partition_query gave
    submitted,           \* the query add_partition or drop_partition handed on
    catalog,             \* the partitions of the catalog
    calls,               \* history: the calls of add_partition and drop_partition
    passCtl,             \* two passes on one catalog: where each pass stands
    catalog0,            \* two passes on one catalog: the catalog they started on
    scan,                \* the partition index: the result pages of the catalog scan
    partitions,          \* the partition index built from the scan
    lookup,              \* the latest check_for_partition and what it gave
    lifecycle            \* the S3 helper on its own: the lifecycle reply and the retention read

handlerVars == <<payload, now, event, regions, expiration, failedLookups>>

ctlVars == <<pc, idx, action, partition, query, exception, result>>

athenaVars == <<execution_response, status, resp, outcome, waitReturn, startReply,
                fetched, serviceError, lastPoll, polls, sawTerminal,
                polledAfterTerminal>>

passVars == <<handlerVars, ctlVars, athenaVars, issued, log>>

builderVars == <<builder_bucket_loc, builder_partition, built, submitted, catalog, calls>>

sharedVars == <<passCtl, catalog0>>

indexVars == <<scan, partitions, lookup>>

\* what a pass of lambda_handler leaves alone
asideVars == <<builderVars, sharedVars, indexVars, lifecycle>>

vars == <<passVars, asideVars>>

Go(c) ==
    /\ pc' = c.pc
    /\ idx' = c.idx
    /\ action' = c.action
    /\ partition' = c.partition
    /\ query' = c.query
    /\ exception' = c.exception
    /\ result' = c.result

\* an exception leaves execute_and_wait, and with it lambda_handler
Propagate(e) ==
    /\ pc' = "raised"
    /\ exception' = e
    /\ outcome' = [kind |-> "raised", exception |-> e]
    /\ UNCHANGED <<idx, action, partition, query, result>>

\* lambda_handler once add_partition or drop_partition returned
AfterCall ==
    IF action = S_ADD
    THEN IF expiration.cached
         THEN AfterAdd(idx, regions, event, expiration.value)
         ELSE Ctl("get_lifecycle", idx, action, partition, query, NoException, "none")
    ELSE LoopHead(idx + 1, regions, event)

\* nothing was called yet
HelperIdle ==
    /\ event = <<>>
    /\ regions = <<>>
    /\ expiration = [cached |-> FALSE]
    /\ failedLookups = {}

CallIdle ==
    /\ idx = 0
    /\ action = <<>>
    /\ partition = <<>>
    /\ query = <<>>
    /\ exception = NoException
    /\ result = "none"
    /\ execution_response = [execution_id |-> <<>>, execution_res_loc |-> <<>>]
    /\ status = ""
    /\ resp = PyNone
    /\ outcome = [kind |-> "none"]
    /\ waitReturn = [set |-> FALSE]
    /\ startReply = [error |-> FALSE]
    /\ fetched = <<>>
    /\ serviceError = FALSE
    /\ lastPoll = PyNone
    /\ polls = 0
    /\ sawTerminal = FALSE
    /\ polledAfterTerminal = FALSE
    /\ issued = <<>>
    /\ log = <<>>

PassIdle == HelperIdle /\ CallIdle

\* a pass does not call the query builder on its own
BuilderIdle ==
    /\ builder_bucket_loc = <<>>
    /\ builder_partition = <<>>
    /\ built = [set |-> FALSE]
    /\ submitted = [set |-> FALSE]
    /\ catalog = {}
    /\ calls = <<>>

\* no passes on a shared catalog
SharedIdle ==
    /\ passCtl = <<>>
    /\ catalog0 = {}

\* no partition index
IndexIdle ==
    /\ scan = <<>>
    /\ partitions = [built |-> FALSE]
    /\ lookup = [set |-> FALSE]

\* the S3 helper is not used on its own
LifecycleIdle == lifecycle = [read |-> FALSE]

Init ==
    /\ payload \in Events
    /\ now \in WallClocks
    /\ pc = "start"
    /\ PassIdle
    /\ BuilderIdle
    /\ SharedIdle
    /\ IndexIdle
    /\ LifecycleIdle

\* lambda_handler once Event(event=event) returned or raised
Constructed(e) ==
    IF e.raised # ""
    THEN /\ pc' = "raised"
         /\ exception' = [type |-> e.raised, msg |-> <<>>]
         /\ event' = event
    ELSE /\ pc' = "list_objects"
         /\ exception' = exception
         /\ event' = e.value

\* lambda_handler up to the first service call: event = Event(event=event)
Start ==
    /\ pc = "start"
    /\ Constructed(EventInit(payload, <<>>))
    /\ UNCHANGED <<payload, now, regions, expiration, failedLookups, idx, action,
                   partition, query,
                   result, athenaVars, issued, log, asideVars>>

\* helper.regions: list_objects, then the head of the loop
ListObjects ==
    /\ pc = "list_objects"
    /\ \E reply \in ListObjectsReplies :
          LET regs == _get_regions(reply)
          IN  /\ regions' = regs
              /\ log' = IF reply.error THEN Append(log, [error |-> "ClientError"]) ELSE log
              /\ failedLookups' = IF reply.error
                                  THEN failedLookups \cup {"list_objects"}
                                  ELSE failedLookups
              /\ Go(LoopHead(1, regs, event))
    /\ UNCHANGED <<payload, now, event, expiration, athenaVars, issued, asideVars>>

\* mutant: the loop goes on only while the query is RUNNING
LoopCondition_running(st) == st = "RUNNING"

\* mutant: the loop goes on until the query is SUCCEEDED
LoopCondition_succeeded(st) == st # "SUCCEEDED"

\* the while condition of wait_for_completion
LoopCondition(st) == st \notin Terminal

\* Athena.execute_query: start_query_execution; on success wait_for_completion
\* is entered with status = "RUNNING" and resp = None
StartQueryExecution ==
    /\ pc = "start_query"
    /\ \E reply \in StartQueryReplies :
          /\ startReply' = reply
          /\ serviceError' = reply.error
          /\ IF reply.error
             THEN /\ Propagate(ClientError)
                  /\ issued' = Append(issued, [action |-> action, partition |-> partition,
                                               state |-> "REJECTED", error |-> TRUE])
                  /\ UNCHANGED <<execution_response, status, resp>>
             ELSE /\ execution_response' = _process_execution_response(reply)
                  /\ status' = "RUNNING"
                  /\ resp' = PyNone
                  /\ pc' = "wait"
                  /\ outcome' = [kind |-> "none"]
                  /\ issued' = Append(issued, [action |-> action, partition |-> partition,
                                               state |-> "SUBMITTED", error |-> FALSE])
                  /\ UNCHANGED <<idx, action, partition, query, exception, result>>
    /\ waitReturn' = [set |-> FALSE]
    /\ fetched' = <<>>
    /\ lastPoll' = PyNone
    /\ polls' = 0
    /\ sawTerminal' = FALSE
    /\ polledAfterTerminal' = FALSE
    /\ UNCHANGED <<handlerVars, log, asideVars>>

\* one turn of the while loop of wait_for_completion: get_query_execution
GetQueryExecution ==
    /\ pc = "wait"
    /\ LoopCondition(status)
    /\ \E reply \in GetQueryExecutionReplies :
          /\ serviceError' = reply.error
          /\ IF reply.error
             THEN /\ Propagate(ClientError)
                  /\ issued' = [issued EXCEPT ![Len(issued)].error = TRUE]
                  /\ UNCHANGED <<status, resp, lastPoll, sawTerminal>>
             ELSE LET st == reply.resp.QueryExecution.Status.State
                  IN  /\ resp' = reply.resp
                      /\ status' = st
                      /\ lastPoll' = reply.resp
                      /\ sawTerminal' = (sawTerminal \/ st \in Terminal)
                      /\ issued' = IF st \in Terminal
                                   THEN [issued EXCEPT ![Len(issued)].state = st]
                                   ELSE issued
                      /\ UNCHANGED <<ctlVars, outcome>>
    /\ polls' = IF polls < MaxPolls THEN polls + 1 ELSE polls
    /\ polledAfterTerminal' = (polledAfterTerminal \/ sawTerminal)
    /\ UNCHANGED <<handlerVars, execution_response, waitReturn, startReply, fetched, log,
                   asideVars>>

\* wait_for_completion leaves its loop and returns resp; execute_and_wait
\* calls the handler of the status
WaitReturn ==
    /\ pc = "wait"
    /\ ~LoopCondition(status)
    /\ waitReturn' = [set |-> TRUE, value |-> resp]
    /\ LET d == Dispatch(execution_response, query, now, resp)
       IN  /\ log' = log \o d.log
           /\ CASE d.next = "results" ->
                       /\ pc' = "get_query_results"
                       /\ UNCHANGED <<idx, action, partition, query, exception, result,
                                      outcome>>
                [] d.next = "raise" -> Propagate(d.exception)
                [] OTHER ->
                       /\ outcome' = [kind |-> "returned", value |-> <<>>, by |-> "empty"]
                       /\ Go(AfterCall)
    /\ UNCHANGED <<handlerVars, execution_response, status, resp, startReply, fetched,
                   serviceError, lastPoll, polls, sawTerminal, polledAfterTerminal,
                   issued, asideVars>>

\* Athena.results: whatever fails, the finally clause returns the local
\* results, which is unbound then
results(reply) ==
    IF reply.error THEN Raise("UnboundLocalError")
    ELSE Return([i \in 1..Len(reply.pages) |-> reply.pages[i].ResultSet])

\* execute_and_wait once self.results(...) returned or raised
Returned(r) ==
    IF r.raised # ""
    THEN Propagate([type |-> r.raised, msg |-> <<>>])
    ELSE /\ outcome' = [kind |-> "returned", value |-> r.value, by |-> "results"]
         /\ Go(AfterCall)

\* Athena.succeeded returns self.results(...), execute_and_wait returns that,
\* and lambda_handler goes on
GetQueryResults ==
    /\ pc = "get_query_results"
    /\ \E reply \in GetQueryResultsReplies :
          /\ serviceError' = reply.error
          /\ fetched' = IF reply.error THEN fetched ELSE reply.pages
          /\ issued' = IF reply.error
                       THEN [issued EXCEPT ![Len(issued)].error = TRUE]
                       ELSE issued
          /\ Returned(results(reply))
    /\ UNCHANGED <<handlerVars, execution_response, status, resp, waitReturn, startReply,
                   lastPoll, polls, sawTerminal, polledAfterTerminal, log, asideVars>>

\* helper.expiration_after_days, read for the first time:
\* get_bucket_lifecycle_configuration, then the rest of the loop body
GetBucketLifecycle ==
    /\ pc = "get_lifecycle"
    /\ \E reply \in LifecycleReplies :
          LET e == _get_bucket_lifecycle_expiration(reply)
          IN  /\ expiration' = [cached |-> TRUE, value |-> e]
              /\ log' = IF reply.error THEN Append(log, [error |-> "ClientError"]) ELSE log
              /\ failedLookups' = IF reply.error
                                  THEN failedLookups \cup {"get_bucket_lifecycle_configuration"}
                                  ELSE failedLookups
              /\ Go(AfterAdd(idx, regions, event, e))
    /\ UNCHANGED <<payload, now, event, regions, athenaVars, issued, asideVars>>

Next ==
    \/ Start
    \/ ListObjects
    \/ StartQueryExecution
    \/ GetQueryExecution
    \/ WaitReturn
    \/ GetQueryResults
    \/ GetBucketLifecycle

Spec == Init /\ [][Next]_vars

\* the process runs on while it has a step to take
FairSpec == Spec /\ WF_vars(Next)

\* the payloads of the passes followed to their end: a timer event with a
\* well-formed time, one with fractional seconds and one without time
EndedEvents ==
    {e \in Events :
         \/ Len(e) = 1
         \/ Len(e) = 2 /\ Len(e[2][2]) > 0 /\ e[2][2][4] = "1"
         \/ Len(e) = 2 /\ Len(e[2][2]) > 20}

InitEnded == Init /\ payload \in EndedEvents

\* the passes for these payloads, the process running on while it has a step
FairSpecEnded == InitEnded /\ [][Next]_vars /\ WF_vars(Next)


(***************************************************************************)
(* The catalog the queries are run against: a set of partitions, each the  *)
(* text in the parentheses of the PARTITION clause.  A query is atomic.    *)
(* ADD of a partition the catalog has and DROP of one it has not fail      *)
(* unless the query carries IF NOT EXISTS respectively IF EXISTS.          *)
(***************************************************************************)
\* s begins with p
startswith(s, p) == Len(s) >= Len(p) /\ SubSeq(s, 1, Len(p)) = p

\* s ends with p
endswith(s, p) == Len(s) >= Len(p) /\ SubSeq(s, Len(s) - Len(p) + 1, Len(s)) = p

\* the first 1-based index where p occurs in s, 0 when it does not
find(s, p) ==
    LET hits == {i \in 1..(Len(s) - Len(p) + 1) : SubSeq(s, i, i + Len(p) - 1) = p}
    IN  IF hits = {} THEN 0 ELSE CHOOSE i \in hits : \A j \in hits : i <= j

\* the number of places where p occurs in s
count(s, p) ==
    Cardinality({i \in 1..(Len(s) - Len(p) + 1) : SubSeq(s, i, i + Len(p) - 1) = p})

\* the text between "PARTITION (" and the next ")"
ClauseOf(q) ==
    LET rest == SubSeq(q, find(q, <<"P", "A", "R", "T", "I", "T", "I", "O", "N", " ", "(">>) + 11, Len(q))
    IN  SubSeq(rest, 1, find(rest, <<")">>) - 1)

\* the words of a query before its PARTITION clause
WordsOf(q) == split(SubSeq(q, 1, find(q, <<" ", "P", "A", "R", "T", "I", "T", "I", "O", "N", " ", "(">>) - 1), " ")

\* the catalog after the query, and whether the query failed
Execute(cat, q) ==
    LET words == WordsOf(q)
        verb  == IF Len(words) >= 4 THEN words[4] ELSE <<>>
        guard == SubSeq(words, 5, Len(words))
        key   == ClauseOf(q)
    IN  CASE verb = <<"A", "D", "D">> ->
                 IF key \notin cat THEN [error |-> FALSE, catalog |-> cat \cup {key}]
                 ELSE [error |-> guard # <<<<"I", "F">>, <<"N", "O", "T">>, <<"E", "X", "I", "S", "T", "S">>>>, catalog |-> cat]
          [] verb = <<"D", "R", "O", "P">> ->
                 IF key \in cat THEN [error |-> FALSE, catalog |-> cat \ {key}]
                 ELSE [error |-> guard # <<<<"I", "F">>, <<"E", "X", "I", "S", "T", "S">>>>, catalog |-> cat]
          [] OTHER -> [error |-> TRUE, catalog |-> cat]

(***************************************************************************)
(* The query builder on its own: _build_partition_query, add_partition and *)
(* drop_partition called on a TablePartition of table_name with arguments  *)
(* drawn from the sets below.                                              *)
(***************************************************************************)
\* the dimensions of a partition dict, in the order of the table
Dimensions == <<S_region, S_year, S_month, S_day, <<"h", "o", "u", "r">>>>

\* the values tried for each dimension
DimensionValues ==
    <<{<<"u", "s", "-", "w", "e", "s", "t", "-", "2">>, <<"e", "u", "-", "1">>},
      {<<"2", "0", "2", "0">>, <<"2", "0", "2", "1">>},
      {<<"0", "3">>, <<"1", "2">>},
      {<<"0", "1">>, <<"3", "1">>},
      {<<"0", "0">>, <<"2", "3">>}>>

RECURSIVE PartitionsOfArity(_)
\* the partition dicts of the first k dimensions
PartitionsOfArity(k) ==
    IF k = 0 THEN {<<>>}
    ELSE {Append(p, <<Dimensions[k], v>>) :
              p \in PartitionsOfArity(k - 1), v \in DimensionValues[k]}

Partitions == UNION {PartitionsOfArity(k) : k \in 0..MaxArity}

\* the bucket_loc arguments tried: that of lambda_handler and that of the tests
BucketLocs == {bucket_loc, <<"s", "3", ":", "/", "/", "f", "o", "o", "/", "b", "a", "r">>}

\* the action_string arguments tried
ActionStrings == {S_ADD, S_DROP, <<"a", "d", "d">>, <<"d", "r", "o", "p">>, <<"D", "E", "L", "E", "T", "E">>, <<>>}

InitBuilder ==
    /\ payload = <<>>
    /\ now \in WallClocks
    /\ pc = "builder"
    /\ PassIdle
    /\ builder_bucket_loc \in BucketLocs
    /\ builder_partition \in Partitions
    /\ built = [set |-> FALSE]
    /\ submitted = [set |-> FALSE]
    /\ catalog = {}
    /\ calls = <<>>
    /\ SharedIdle
    /\ IndexIdle
    /\ LifecycleIdle

\* a call of _build_partition_query
BuildPartitionQuery ==
    /\ \E action_string \in ActionStrings :
          built' = [set |-> TRUE, action_string |-> action_string,
                    result |-> _build_partition_query(table_name, builder_bucket_loc,
                                                      builder_partition, action_string)]
    /\ UNCHANGED <<builder_bucket_loc, builder_partition, submitted, catalog, calls,
                   passVars, sharedVars, indexVars, lifecycle>>

\* execute_and_wait(query=query) against the catalog: the query is run, and
\* the call raises when the query failed
Submit(method, q) ==
    /\ Len(calls) < MaxCalls
    /\ submitted' = [set |-> TRUE, method |-> method, query |-> q]
    /\ catalog' = Execute(catalog, q).catalog
    /\ calls' = Append(calls, [method |-> method, query |-> q,
                               raised |-> Execute(catalog, q).error,
                               after |-> Execute(catalog, q).catalog])
    /\ UNCHANGED <<builder_bucket_loc, builder_partition, built, passVars, sharedVars, indexVars, lifecycle>>

\* add_partition: the query it builds is handed to execute_and_wait
AddPartition ==
    Submit("add_partition",
           add_partition_query(table_name, builder_bucket_loc, builder_partition).value)

\* drop_partition: the query it builds is handed to execute_and_wait
DropPartition ==
    Submit("drop_partition",
           drop_partition_query(table_name, builder_bucket_loc, builder_partition).value)

NextBuilder ==
    \/ BuildPartitionQuery
    \/ AddPartition
    \/ DropPartition

SpecBuilder == InitBuilder /\ [][NextBuilder]_vars


(***************************************************************************)
(* Two passes of lambda_handler for the same event, regions and retention  *)
(* on one catalog.  A step of a pass is one execute_and_wait: its query is *)
(* run on the catalog at once, and the call raises when the query failed.  *)
(***************************************************************************)
Passes == {1, 2}

\* the event dicts an Event with a time is built from
TimedEvents ==
    {e \in Events : /\ EventInit(e, <<>>).raised = ""
                    /\ TimeOf(EventInit(e, <<>>).value).raised = ""}

\* what helper.regions may be
RegionLists == {_get_regions(reply) : reply \in ListObjectsReplies}

\* what helper.expiration_after_days may be
Retentions == {_get_bucket_lifecycle_expiration(reply) : reply \in LifecycleReplies}

\* the partitions a pass adds
AddedKeys(regs, ev) ==
    {ClauseOf(add_partition_query(table_name, bucket_loc,
                                  new_partition(regs[i], ev).value).value) :
         i \in 1..Len(regs)}

\* the partitions a pass drops
DroppedKeys(regs, ev, expiration_after_days) ==
    IF Truthy(expiration_after_days)
    THEN {ClauseOf(drop_partition_query(table_name, bucket_loc,
                                        old_partition(regs[i], ev,
                                                      expiration_after_days.v)).value) :
              i \in 1..Len(regs)}
    ELSE {}

\* the catalogs the passes start on: empty, with the partitions to drop, and
\* with those and the partitions to add
StartCatalogs(regs, ev, expiration_after_days) ==
    {{}, DroppedKeys(regs, ev, expiration_after_days),
     DroppedKeys(regs, ev, expiration_after_days) \cup AddedKeys(regs, ev)}

InitPasses ==
    /\ payload \in TimedEvents
    /\ now \in WallClocks
    /\ pc = "passes"
    /\ event = EventInit(payload, <<>>).value
    /\ regions \in RegionLists
    /\ expiration \in {[cached |-> TRUE, value |-> e] : e \in Retentions}
    /\ failedLookups = {}
    /\ CallIdle
    /\ builder_bucket_loc = <<>>
    /\ builder_partition = <<>>
    /\ built = [set |-> FALSE]
    /\ submitted = [set |-> FALSE]
    /\ calls = <<>>
    /\ catalog0 \in StartCatalogs(regions, event, expiration.value)
    /\ catalog = catalog0
    /\ passCtl = [p \in Passes |-> LoopHead(1, regions, event)]
    /\ IndexIdle
    /\ LifecycleIdle

\* lambda_handler once the add_partition or drop_partition of c returned
AfterQuery(c) ==
    IF c.action = S_ADD
    THEN AfterAdd(c.idx, regions, event, expiration.value)
    ELSE LoopHead(c.idx + 1, regions, event)

\* the query failed: Athena.failed raises, and the exception leaves the pass
QueryFailed(c) ==
    Ctl("raised", c.idx, c.action, c.partition, c.query,
        [type |-> "Exception", msg |-> S_failed], "none")

\* pass p runs the query in hand and goes on to its next one
PassStep(p) ==
    /\ passCtl[p].pc = "start_query"
    /\ catalog' = Execute(catalog, passCtl[p].query).catalog
    /\ passCtl' = [passCtl EXCEPT ![p] =
                       IF Execute(catalog, passCtl[p].query).error
                       THEN QueryFailed(passCtl[p])
                       ELSE AfterQuery(passCtl[p])]
    /\ UNCHANGED <<passVars, builder_bucket_loc, builder_partition, built, submitted,
                   calls, catalog0, indexVars, lifecycle>>

NextPasses == \E p \in Passes : PassStep(p)

SpecPasses == InitPasses /\ [][NextPasses]_vars


(***************************************************************************)
(* The partition index (TablePartitions, of which the repository keeps the *)
(* tests only): a nested mapping built from the result pages of a catalog  *)
(* scan, keyed by the values of the successive dimensions and ending in    *)
(* the set of the values of the last one, and the existence check on it.   *)
(* A page is a sequence of rows, a row the text of its single column.      *)
(***************************************************************************)
\* the values of a row k1=v1/k2=v2/...
ParseRow(row) ==
    LET segments == split(row, "/")
    IN  [i \in 1..Len(segments) |->
             SubSeq(segments[i], find(segments[i], <<"=">>) + 1, Len(segments[i]))]

RECURSIVE Insert(_, _)
\* the node with the tuple of values inserted, levels made as needed
Insert(node, values) ==
    IF Len(values) = 1 THEN node \cup {values[1]}
    ELSE [v \in DOMAIN node \cup {values[1]} |->
              IF v # values[1] THEN node[v]
              ELSE Insert(IF v \in DOMAIN node THEN node[v]
                          ELSE IF Len(values) = 2 THEN {} ELSE [w \in {} |-> {}],
                          Tail(values))]

RECURSIVE InsertRows(_, _)
\* the node with the values of every row inserted
InsertRows(node, rows) ==
    IF rows = <<>> THEN node
    ELSE InsertRows(Insert(node, ParseRow(rows[1])), Tail(rows))

RECURSIVE RowsOf_every_page(_, _)
\* mutant: the first row of every page is skipped
RowsOf_every_page(pages, first) ==
    IF pages = <<>> THEN <<>>
    ELSE Tail(pages[1]) \o RowsOf_every_page(Tail(pages), FALSE)

RECURSIVE RowsOf(_, _)
\* the rows of the pages but the header, the first row of the first page
RowsOf(pages, first) ==
    IF pages = <<>> THEN <<>>
    ELSE (IF first THEN Tail(pages[1]) ELSE pages[1]) \o RowsOf(Tail(pages), FALSE)

\* the index of a table of the given arity built from the pages
_get_partitions(pages, arity) ==
    InsertRows(IF arity = 1 THEN {} ELSE [w \in {} |-> {}], RowsOf(pages, TRUE))

RECURSIVE check_for_partition(_, _)
\* the walk down the index by the values of the key
check_for_partition(node, key) ==
    IF Len(key) = 1 THEN key[1] \in node
    ELSE IF key[1] \notin DOMAIN node THEN FALSE
    ELSE check_for_partition(node[key[1]], Tail(key))

\* the dimensions of the table of the tests
Schema == <<S_region, S_year, S_month, S_day>>

HeaderRow == <<"p", "a", "r", "t", "i", "t", "i", "o", "n">>

\* the rows a scan may list
RowPool ==
    {<<"r", "e", "g", "i", "o", "n", "=", "u", "s", "-", "e", "a", "s", "t", "-", "1", "/", "y", "e", "a", "r", "=", "2", "0", "2", "0", "/", "m", "o", "n", "t", "h", "=", "0", "3", "/", "d", "a", "y", "=", "3", "0">>,
     <<"r", "e", "g", "i", "o", "n", "=", "u", "s", "-", "w", "e", "s", "t", "-", "2", "/", "y", "e", "a", "r", "=", "2", "0", "2", "0", "/", "m", "o", "n", "t", "h", "=", "0", "3", "/", "d", "a", "y", "=", "3", "0">>,
     <<"r", "e", "g", "i", "o", "n", "=", "u", "s", "-", "e", "a", "s", "t", "-", "1", "/", "y", "e", "a", "r", "=", "2", "0", "2", "0", "/", "m", "o", "n", "t", "h", "=", "0", "4", "/", "d", "a", "y", "=", "2", "5">>,
     <<"r", "e", "g", "i", "o", "n", "=", "u", "s", "-", "e", "a", "s", "t", "-", "1", "/", "y", "e", "a", "r", "=", "2", "0", "2", "0", "/", "m", "o", "n", "t", "h", "=", "0", "3", "/", "d", "a", "y", "=", "2", "5">>}

\* the values a key asked for may have, dimension by dimension
KeyValues ==
    <<{<<"u", "s", "-", "e", "a", "s", "t", "-", "1">>, <<"u", "s", "-", "w", "e", "s", "t", "-", "2">>}, {<<"2", "0", "2", "0">>}, {<<"0", "3">>, <<"0", "4">>}, {<<"3", "0">>, <<"2", "5">>}>>

\* the header and the rows cut into one page or two
PagesOf(rows) ==
    {<<rows>>} \cup {<<SubSeq(rows, 1, k), SubSeq(rows, k + 1, Len(rows))>> :
                         k \in 1..(Len(rows) - 1)}

Scans == UNION {PagesOf(<<HeaderRow>> \o rows) : rows \in DistinctSeqs(RowPool, MaxRows)}

InitIndex ==
    /\ payload = <<>>
    /\ now \in WallClocks
    /\ pc = "index"
    /\ PassIdle
    /\ BuilderIdle
    /\ SharedIdle
    /\ LifecycleIdle
    /\ scan \in Scans
    /\ partitions = [built |-> FALSE]
    /\ lookup = [set |-> FALSE]

\* TablePartitions(athena_client, table, schema): the index is built
GetPartitions ==
    /\ ~partitions.built
    /\ partitions' = [built |-> TRUE, tree |-> _get_partitions(scan, Len(Schema))]
    /\ UNCHANGED <<passVars, builderVars, sharedVars, lifecycle, scan, lookup>>

\* check_for_partition(key)
CheckForPartition ==
    /\ partitions.built
    /\ \E key \in {k \in [1..Len(Schema) -> UNION {KeyValues[i] : i \in 1..Len(Schema)}] :
                       \A i \in 1..Len(Schema) : k[i] \in KeyValues[i]} :
          lookup' = [set |-> TRUE, key |-> key,
                     found |-> check_for_partition(partitions.tree, key)]
    /\ UNCHANGED <<passVars, builderVars, sharedVars, lifecycle, scan, partitions>>

NextIndex ==
    \/ GetPartitions
    \/ CheckForPartition

SpecIndex == InitIndex /\ [][NextIndex]_vars


(***************************************************************************)
(* The S3 helper on its own: expiration_after_days read once, on any       *)
(* lifecycle configuration of up to MaxRules rules.                        *)
(***************************************************************************)
\* a rule that expires the objects on a date
DatedRule == [ID |-> "expire-on", Expiration |-> [Date |-> "2021-01-01"]]

\* a rule with an Expiration that only removes delete markers
MarkerRule == [ID |-> "markers", Expiration |-> [ExpiredObjectDeleteMarker |-> TRUE]]

RulePool ==
    {TransitionRule, DatedRule, MarkerRule} \cup {ExpirationRule(d) : d \in ExpirationDays}

\* the replies of get_bucket_lifecycle_configuration: an error, a reply
\* without Rules, and the configurations of up to MaxRules rules
LifecycleConfigurations ==
    {[error |-> TRUE], [error |-> FALSE]}
    \cup {[error |-> FALSE, Rules |-> rl] :
              rl \in UNION {[1..n -> RulePool] : n \in 0..MaxRules}}

InitLifecycle ==
    /\ payload = <<>>
    /\ now \in WallClocks
    /\ pc = "lifecycle"
    /\ PassIdle
    /\ BuilderIdle
    /\ SharedIdle
    /\ IndexIdle
    /\ lifecycle \in {[read |-> FALSE, reply |-> r] : r \in LifecycleConfigurations}

\* helper.expiration_after_days, read for the first time
ExpirationAfterDays ==
    /\ "reply" \in DOMAIN lifecycle
    /\ ~lifecycle.read
    /\ lifecycle' = [read |-> TRUE, reply |-> lifecycle.reply,
                     value |-> _get_bucket_lifecycle_expiration(lifecycle.reply)]
    /\ UNCHANGED <<passVars, builderVars, sharedVars, indexVars>>

SpecLifecycle == InitLifecycle /\ [][ExpirationAfterDays]_vars


(***************************************************************************)
(* The Gregorian calendar and the decimal notation, stated on their own    *)
(* for the properties below.                                               *)
(***************************************************************************)
LeapYear(y) == (y % 4 = 0 /\ y % 100 # 0) \/ y % 400 = 0

LastDayOf(y, m) ==
    CASE m \in {4, 6, 9, 11} -> 30
      [] m = 2               -> IF LeapYear(y) THEN 29 ELSE 28
      [] OTHER               -> 31

\* the last day of the month before the month of d
EndOfMonthBefore(d) ==
    IF d.month > 1
    THEN [year |-> d.year, month |-> d.month - 1, day |-> LastDayOf(d.year, d.month - 1)]
    ELSE [year |-> d.year - 1, month |-> 12, day |-> 31]

RECURSIVE DaysBefore(_, _)
\* the date n days before d, stepping back a month at a time
DaysBefore(d, n) ==
    IF n < d.day
    THEN [year |-> d.year, month |-> d.month, day |-> d.day - n]
    ELSE DaysBefore(EndOfMonthBefore(d), n - d.day)

Digit(n) == DigitChars[n + 1]

TwoDigits(n) == <<Digit(n \div 10), Digit(n % 10)>>

FourDigits(n) ==
    <<Digit(n \div 1000), Digit((n \div 100) % 10), Digit((n \div 10) % 10), Digit(n % 10)>>

Number2(t, i) == 10 * DigitVal(t[i]) + DigitVal(t[i + 1])

\* the text under "time" in the payload
PayloadTime == (CHOOSE i \in {payload[n] : n \in 1..Len(payload)} : i[1] = "time")[2]

\* the date the trigger carries: yyyy-mm-dd at the head of its time
TriggerDate ==
    [year  |-> 100 * Number2(PayloadTime, 1) + Number2(PayloadTime, 3),
     month |-> Number2(PayloadTime, 6),
     day   |-> Number2(PayloadTime, 9)]

\* the partition key of a region and a date
KeyOf(region, d) ==
    << <<S_region, region>>, <<S_year, FourDigits(d.year)>>,
       <<S_month, TwoDigits(d.month)>>, <<S_day, TwoDigits(d.day)>> >>

Issued(a) == {j \in 1..Len(issued) : issued[j].action = a}

PolledState == lastPoll.QueryExecution.Status.State

(***************************************************************************)
(* C1: execute_and_wait ends, when no service call failed, in exactly one  *)
(* of three ways decided by the terminal status polled: on SUCCEEDED it    *)
(* returns the result sets of the pages fetched, on FAILED and on          *)
(* CANCELLED it raises an Exception whose message ends with the execution  *)
(* id the service gave at submission.  It never returns an empty value.    *)
(***************************************************************************)
C1_DispatchOnTerminalStatus ==
    (outcome.kind # "none" /\ ~serviceError) =>
        /\ lastPoll # PyNone
        /\ \/ /\ PolledState = "SUCCEEDED"
              /\ outcome.kind = "returned"
              /\ outcome.by = "results"
              /\ outcome.value = [i \in 1..Len(fetched) |-> fetched[i].ResultSet]
           \/ /\ PolledState \in {"FAILED", "CANCELLED"}
              /\ outcome.kind = "raised"
              /\ outcome.exception = exception
              /\ exception.type = "Exception"
              /\ startReply.QueryExecutionId # <<>>
              /\ endswith(exception.msg, startReply.QueryExecutionId)
              /\ pc = "raised"

C1_Witness ==
    /\ outcome.kind = "raised"
    /\ ~serviceError
    /\ PolledState = "CANCELLED"
    /\ endswith(exception.msg, <<"q", "2">>)

C3_BoundedWait == (pc = "wait") ~> (pc # "wait")

(***************************************************************************)
(* C4: lambda_handler returns True only if for every discovered region an  *)
(* ADD of the key (region, year, month, day of the event) was submitted    *)
(* and reached SUCCEEDED, and no ADD ended FAILED or CANCELLED or had a    *)
(* service call fail.                                                      *)
(***************************************************************************)
C4_TrueOnlyIfAllAddsSucceeded ==
    result = "True" =>
        /\ \A i \in 1..Len(regions) :
               \E j \in Issued(S_ADD) :
                   /\ issued[j].partition = KeyOf(regions[i], TriggerDate)
                   /\ issued[j].state = "SUCCEEDED"
        /\ \A j \in Issued(S_ADD) : issued[j].state = "SUCCEEDED" /\ ~issued[j].error

C4_Witness ==
    /\ result = "True"
    /\ Len(regions) = 2
    /\ Cardinality(Issued(S_ADD)) = 2

(***************************************************************************)
(* C5: a DROP that fails (FAILED, CANCELLED or a service error) does not   *)
(* fail the pass: no exception leaves lambda_handler because of a DROP.    *)
(***************************************************************************)
C5_DropFailureTolerated == ~(pc = "raised" /\ action = S_DROP)

(***************************************************************************)
(* C6: a pass that returns has issued one DROP for every discovered region *)
(* when the lifecycle lookup gave an expiration of any number of days >= 0 *)
(* (0 too), and no DROP when it gave none.                                 *)
(***************************************************************************)
C6_DropIffRetention ==
    result = "True" =>
        Cardinality(Issued(S_DROP)) =
            IF expiration.cached /\ expiration.value.type = "int"
            THEN Len(regions) ELSE 0

(***************************************************************************)
(* C7: every DROP follows the ADD of the same region, and its year, month  *)
(* and day are those of the calendar date expiration-days days before the  *)
(* date of the trigger, as four and two digits; the wall clock plays no    *)
(* part.                                                                   *)
(***************************************************************************)
C7_DropKey ==
    \A j \in Issued(S_DROP) :
        /\ j > 1
        /\ issued[j - 1].action = S_ADD
        /\ issued[j - 1].state = "SUCCEEDED"
        /\ issued[j].partition =
               KeyOf(issued[j - 1].partition[1][2],
                     DaysBefore(TriggerDate, expiration.value.v))

C7_Witness ==
    \E j \in Issued(S_DROP) :
        /\ issued[j].partition[2][2] # issued[j - 1].partition[2][2]
        /\ issued[j].partition[3][2] = <<"1", "2">>


(***************************************************************************)
(* Reading a query back: the pairs of its PARTITION clause and the text in *)
(* the quotes of its LOCATION clause.                                      *)
(***************************************************************************)
\* k='v' read as <<k, v>>; a text of another shape is read as <<text, "">>
ParsePair(t) ==
    LET e == find(t, <<"=", "'">>)
    IN  IF e > 0 /\ Len(t) >= e + 2 /\ t[Len(t)] = "'"
        THEN <<SubSeq(t, 1, e - 1), SubSeq(t, e + 2, Len(t) - 1)>>
        ELSE <<t, <<>> >>

\* the pairs of the PARTITION clause, in order
ParseClause(q) ==
    LET parts == split(ClauseOf(q), ",")
    IN  [i \in 1..Len(parts) |-> ParsePair(parts[i])]

\* the text between "LOCATION '" and the closing quote
LocationOf(q) == SubSeq(q, find(q, <<"L", "O", "C", "A", "T", "I", "O", "N", " ", "'">>) + 10, Len(q) - 1)

\* the "/"-separated segments of a path; a final separator ends the last one
SegmentsOf(path) ==
    LET parts == split(path, "/")
    IN  IF parts[Len(parts)] = <<>> THEN SubSeq(parts, 1, Len(parts) - 1) ELSE parts

ValuesOf(K) == [i \in 1..Len(K) |-> K[i][2]]

RECURSIVE EachFollowedBySlash(_)
EachFollowedBySlash(vs) ==
    IF vs = <<>> THEN <<>> ELSE vs[1] \o <<"/">> \o EachFollowedBySlash(Tail(vs))

AddHead == <<"A", "L", "T", "E", "R", " ", "T", "A", "B", "L", "E", " ", "c", "t", " ", "A", "D", "D", " ", "I", "F", " ", "N", "O", "T", " ", "E", "X", "I", "S", "T", "S", " ", "P", "A", "R", "T", "I", "T", "I", "O", "N", " ", "(">>

DropHead == <<"A", "L", "T", "E", "R", " ", "T", "A", "B", "L", "E", " ", "c", "t", " ", "D", "R", "O", "P", " ", "I", "F", " ", "E", "X", "I", "S", "T", "S", " ", "P", "A", "R", "T", "I", "T", "I", "O", "N", " ", "(">>

BuiltQuery == built.result.value

BuiltFor(a) == built.set /\ built.action_string = a /\ built.result.raised = ""

C9_RoundTrip ==
    (BuiltFor(S_ADD) /\ Len(builder_partition) >= 1) =>
        /\ ParseClause(BuiltQuery) = builder_partition
        /\ count(ClauseOf(BuiltQuery), <<",">>) = Len(builder_partition) - 1
        /\ startswith(LocationOf(BuiltQuery), S_s3 \o builder_bucket_loc \o <<"/">>)
        /\ SegmentsOf(SubSeq(LocationOf(BuiltQuery), Len(builder_bucket_loc) + 7,
                             Len(LocationOf(BuiltQuery))))
               = ValuesOf(builder_partition)

C9_Witness ==
    /\ BuiltFor(S_ADD)
    /\ Len(builder_partition) = 3
    /\ ParseClause(BuiltQuery)[3] = <<S_month, <<"1", "2">> >>

(***************************************************************************)
(* C10: the LOCATION of an ADD query is s3:// followed by bucket_loc, a /  *)
(* and every value of the partition in order, each followed by a /; for    *)
(* bucket_loc s3://foo/bar and the values us-west-2, 2020, 03, 01 it is    *)
(* s3://s3://foo/bar/us-west-2/2020/03/01/.                                *)
(***************************************************************************)
C10_Location ==
    BuiltFor(S_ADD) =>
        /\ LocationOf(BuiltQuery) =
               <<"s", "3", ":", "/", "/">> \o builder_bucket_loc \o <<"/">>
               \o EachFollowedBySlash(ValuesOf(builder_partition))
        /\ endswith(LocationOf(BuiltQuery), <<"/">>)
        /\ (/\ builder_bucket_loc = <<"s", "3", ":", "/", "/", "f", "o", "o", "/", "b", "a", "r">>
            /\ ValuesOf(builder_partition) = <<<<"u", "s", "-", "w", "e", "s", "t", "-", "2">>, <<"2", "0", "2", "0">>, <<"0", "3">>, <<"0", "1">>>>)
           => LocationOf(BuiltQuery) = <<"s", "3", ":", "/", "/", "s", "3", ":", "/", "/", "f", "o", "o", "/", "b", "a", "r", "/", "u", "s", "-", "w", "e", "s", "t", "-", "2", "/", "2", "0", "2", "0", "/", "0", "3", "/", "0", "1", "/">>

C10_Witness ==
    /\ BuiltFor(S_ADD)
    /\ builder_bucket_loc = <<"s", "3", ":", "/", "/", "f", "o", "o", "/", "b", "a", "r">>
    /\ LocationOf(BuiltQuery) = <<"s", "3", ":", "/", "/", "s", "3", ":", "/", "/", "f", "o", "o", "/", "b", "a", "r", "/", "u", "s", "-", "w", "e", "s", "t", "-", "2", "/", "2", "0", "2", "0", "/", "0", "3", "/", "0", "1", "/">>


(***************************************************************************)
(* C11: a query built for DROP has no LOCATION clause and a query built    *)
(* for ADD has exactly one, whatever the partition and the base location.  *)
(***************************************************************************)
C11_LocationIffAdd ==
    /\ BuiltFor(S_ADD) =>
          /\ count(BuiltQuery, <<" ", "L", "O", "C", "A", "T", "I", "O", "N", " ", "'">>) = 1
          /\ count(BuiltQuery, <<"L", "O", "C", "A", "T", "I", "O", "N">>) = 1
    /\ BuiltFor(S_DROP) => count(BuiltQuery, <<"L", "O", "C", "A", "T", "I", "O", "N">>) = 0

C11_Witness ==
    /\ BuiltFor(S_DROP)
    /\ Len(builder_partition) = 4
    /\ builder_bucket_loc = <<"s", "3", ":", "/", "/", "f", "o", "o", "/", "b", "a", "r">>

(***************************************************************************)
(* C12: _build_partition_query raises ValueError for every action_string   *)
(* that is not exactly ADD or DROP (add, drop and the empty string too)    *)
(* and gives no query then; add_partition and drop_partition hand on only  *)
(* queries of ADD and of DROP.                                             *)
(***************************************************************************)
C12_InvalidAction ==
    /\ (built.set /\ built.action_string \notin {<<"A", "D", "D">>, <<"D", "R", "O", "P">>}) =>
          /\ built.result.raised = "ValueError"
          /\ "value" \notin DOMAIN built.result
    /\ (built.set /\ built.action_string \in {<<"A", "D", "D">>, <<"D", "R", "O", "P">>}) => built.result.raised = ""
    /\ submitted.set =>
          \/ startswith(submitted.query, AddHead)
          \/ startswith(submitted.query, DropHead)

C12_Witness ==
    /\ built.set
    /\ built.action_string = <<"d", "r", "o", "p">>
    /\ built.result.raised = "ValueError"


(***************************************************************************)
(* C13: add_partition called twice in a row with the same base location    *)
(* and partition hands on the same query text both times, the second call  *)
(* does not raise against a catalog that honours IF NOT EXISTS, and the    *)
(* catalog after the second call is the catalog after the first, which     *)
(* has the partition.                                                      *)
(***************************************************************************)
C13_AddIdempotent ==
    \A i \in 1..(Len(calls) - 1) :
        (calls[i].method = "add_partition" /\ calls[i + 1].method = "add_partition") =>
            /\ calls[i + 1].query = calls[i].query
            /\ ~calls[i + 1].raised
            /\ calls[i + 1].after = calls[i].after
            /\ Cardinality(calls[i].after) = 1

C13_Witness ==
    /\ Len(calls) = 3
    /\ calls[1].method = "drop_partition"
    /\ calls[2].method = "add_partition"
    /\ calls[3].method = "add_partition"
    /\ Len(builder_partition) = 4

\* the payload has an item "time"
HasTime == \E n \in 1..Len(payload) : payload[n][1] = "time"

\* t reads dddd-dd-ddTdd:dd:dd, then Z or a dot, digits and Z, and its date is
\* a date of the calendar
WellFormed(t) ==
    /\ Len(t) >= 20
    /\ \A i \in {1, 2, 3, 4, 6, 7, 9, 10, 12, 13, 15, 16, 18, 19} : IsDigit(t[i])
    /\ <<t[5], t[8], t[11], t[14], t[17]>> = <<"-", "-", "T", ":", ":">>
    /\ t[Len(t)] = "Z"
    /\ Len(t) > 20 => (Len(t) >= 22 /\ t[20] = "." /\ \A i \in 21..(Len(t) - 1) : IsDigit(t[i]))
    /\ Number2(t, 6) \in 1..12
    /\ Number2(t, 9) \in 1..LastDayOf(100 * Number2(t, 1) + Number2(t, 3), Number2(t, 6))
    /\ Number2(t, 12) < 24 /\ Number2(t, 15) < 60 /\ Number2(t, 18) < 60

(***************************************************************************)
(* C14: for an event whose time is a UTC timestamp with fractional seconds *)
(* (2020-09-15T10:00:00.000Z) the Event gives as event_year, event_month   *)
(* and event_day the four digits of the year and the two digits of the     *)
(* month and of the day of that timestamp.                                 *)
(***************************************************************************)
C14_FractionalSeconds ==
    (pc # "start" /\ HasTime /\ WellFormed(PayloadTime) /\ Len(PayloadTime) > 20) =>
        /\ event_year(event) = Return(SubSeq(PayloadTime, 1, 4))
        /\ event_month(event) = Return(SubSeq(PayloadTime, 6, 7))
        /\ event_day(event) = Return(SubSeq(PayloadTime, 9, 10))

(***************************************************************************)
(* C15: for an event whose time is malformed, empty or absent              *)
(* lambda_handler fails: it never returns True and never hands a query to  *)
(* the catalog, whatever the regions are, also when there is none.         *)
(***************************************************************************)
C15_MalformedTimeFails ==
    (~HasTime \/ ~WellFormed(PayloadTime)) =>
        /\ result # "True"
        /\ issued = <<>>
        /\ pc \in {"start", "list_objects", "raised"}


(***************************************************************************)
(* C16: when the listing of the regions fails, the region list is empty    *)
(* and the pass returns True without a query; when the lifecycle lookup    *)
(* fails, the retention is absent: no DROP is issued, the pass goes on     *)
(* with the ADDs of the regions left, and if it fails, an ADD failed it.   *)
(***************************************************************************)
C16_LookupFailuresDegrade ==
    /\ "list_objects" \in failedLookups =>
          /\ regions = <<>>
          /\ issued = <<>>
          /\ pc = "returned"
          /\ result = "True"
    /\ "get_bucket_lifecycle_configuration" \in failedLookups =>
          /\ expiration = [cached |-> TRUE, value |-> PyNone]
          /\ Issued(S_DROP) = {}
          /\ pc # "get_lifecycle"
          /\ pc = "raised" => (action = S_ADD /\ Len(issued) >= 2)
          /\ result = "True" => Cardinality(Issued(S_ADD)) = Len(regions)

C16_Witness ==
    /\ "get_bucket_lifecycle_configuration" \in failedLookups
    /\ result = "True"
    /\ Len(regions) = 2

(***************************************************************************)
(* C17: when start_query_execution, get_query_execution or the fetch of    *)
(* the results fails with a service error, execute_and_wait raises that    *)
(* service error and returns nothing.                                      *)
(***************************************************************************)
C17_ServiceErrorSurfaced ==
    (serviceError /\ outcome.kind # "none") =>
        /\ outcome.kind = "raised"
        /\ outcome.exception = ClientError

(***************************************************************************)
(* C18: when execute_and_wait raises, a record with the text of the query  *)
(* and, when the query was accepted, its execution id was logged before.   *)
(***************************************************************************)
C18_FailuresLogged ==
    outcome.kind = "raised" =>
        \E i \in 1..Len(log) :
            /\ "query" \in DOMAIN log[i]
            /\ log[i].query = query
            /\ ~startReply.error => log[i].execution_id = startReply.QueryExecutionId


RECURSIVE RunAlone(_, _)
\* the catalog a pass at c leaves when it runs alone on cat
RunAlone(c, cat) ==
    IF c.pc # "start_query" \/ Execute(cat, c.query).error THEN cat
    ELSE RunAlone(AfterQuery(c), Execute(cat, c.query).catalog)

(***************************************************************************)
(* C19: of two passes for the same event, regions and retention whose      *)
(* queries interleave in any order on one catalog, none fails, both return *)
(* True, and the catalog they leave is the catalog one pass alone leaves.  *)
(***************************************************************************)
C19_ConcurrentPasses ==
    /\ \A p \in DOMAIN passCtl : passCtl[p].pc # "raised"
    /\ (\A p \in DOMAIN passCtl : passCtl[p].pc = "returned") =>
          /\ \A p \in DOMAIN passCtl : passCtl[p].result = "True"
          /\ catalog = RunAlone(LoopHead(1, regions, event), catalog0)

C19_Witness ==
    /\ \A p \in Passes : passCtl[p].pc = "returned"
    /\ Len(regions) = 2
    /\ Truthy(expiration.value)
    /\ catalog0 # {}
    /\ catalog # catalog0


\* the row that lists the partition of a key
RowText(key) ==
    S_region \o <<"=">> \o key[1] \o <<"/">> \o S_year \o <<"=">> \o key[2] \o <<"/">>
    \o S_month \o <<"=">> \o key[3] \o <<"/">> \o S_day \o <<"=">> \o key[4]

\* the places of the rows of the scan that are no header
DataPlaces ==
    {pl \in {<<i, j>> : i \in 1..Len(scan), j \in 1..MaxRows + 1} :
         pl[2] <= Len(scan[pl[1]]) /\ pl # <<1, 1>>}

(***************************************************************************)
(* C20: the existence check on the index built from a scan is true for a   *)
(* key exactly if a row of the scan other than the header, the first row   *)
(* of the first page, lists the values of the key in order; with the one   *)
(* partition region=us-east-1/year=2020/month=03/day=30 it is true for     *)
(* us-east-1, 2020, 03, 30 and false for us-west-2, 2020, 04, 25.          *)
(***************************************************************************)
C20_IndexContains ==
    lookup.set =>
        /\ lookup.found <=>
               \E pl \in DataPlaces : scan[pl[1]][pl[2]] = RowText(lookup.key)
        /\ scan = <<<<HeaderRow, <<"r", "e", "g", "i", "o", "n", "=", "u", "s", "-", "e", "a", "s", "t", "-", "1", "/", "y", "e", "a", "r", "=", "2", "0", "2", "0", "/", "m", "o", "n", "t", "h", "=", "0", "3", "/", "d", "a", "y", "=", "3", "0">>>>>> =>
               /\ lookup.key = <<<<"u", "s", "-", "e", "a", "s", "t", "-", "1">>, <<"2", "0", "2", "0">>, <<"0", "3">>, <<"3", "0">>>> => lookup.found
               /\ lookup.key = <<<<"u", "s", "-", "w", "e", "s", "t", "-", "2">>, <<"2", "0", "2", "0">>, <<"0", "4">>, <<"2", "5">>>> => ~lookup.found

C20_Witness ==
    /\ lookup.set
    /\ lookup.found
    /\ Len(scan) = 2
    /\ lookup.key = <<<<"u", "s", "-", "e", "a", "s", "t", "-", "1">>, <<"2", "0", "2", "0">>, <<"0", "3">>, <<"3", "0">>>>


\* the rule bears an Expiration.Days field
BearsDays(rule) ==
    /\ "Expiration" \in DOMAIN rule
    /\ "Days" \in DOMAIN rule["Expiration"]

\* the rules of the configuration read
RulesRead == IF "Rules" \in DOMAIN lifecycle.reply THEN lifecycle.reply["Rules"] ELSE <<>>

(***************************************************************************)
(* C21: the retention read from a lifecycle configuration is the Days of   *)
(* the first rule, in list order, that bears Expiration.Days, rules        *)
(* without it being skipped; it is None exactly when no rule bears it or   *)
(* there is no rule.                                                       *)
(***************************************************************************)
C21_FirstExpirationDays ==
    (lifecycle.read /\ ~lifecycle.reply.error) =>
        LET bearing == {i \in 1..Len(RulesRead) : BearsDays(RulesRead[i])}
        IN  /\ (lifecycle.value = PyNone) <=> (bearing = {})
            /\ bearing # {} =>
                   \E i \in bearing :
                       /\ \A j \in bearing : i <= j
                       /\ lifecycle.value = PyInt(RulesRead[i]["Expiration"]["Days"])

C21_Witness ==
    /\ lifecycle.read
    /\ ~lifecycle.reply.error
    /\ Len(RulesRead) = 3
    /\ ~BearsDays(RulesRead[1])
    /\ BearsDays(RulesRead[2])
    /\ BearsDays(RulesRead[3])
    /\ RulesRead[2]["Expiration"]["Days"] # RulesRead[3]["Expiration"]["Days"]
    /\ lifecycle.value = PyInt(RulesRead[2]["Expiration"]["Days"])


\* the step submits the query: start_query_execution
SubmitStep == pc = "start_query"

\* the step asks for the status: get_query_execution
PollStep == pc = "wait" /\ waitReturn' = waitReturn

\* the step leaves wait_for_completion
WaitEndStep == pc = "wait" /\ waitReturn' # waitReturn

\* the step fetches the results: get_query_results
FetchStep == pc = "get_query_results"

(***************************************************************************)
(* C22: in one execute_and_wait the service is called in the order submit, *)
(* one or more status polls, at most one fetch of the results: a poll is   *)
(* made only once the submit returned, the fetch only when the last status *)
(* polled is SUCCEEDED (not FAILED, not CANCELLED, not before a terminal   *)
(* status), and no call is made after a call that failed.                  *)
(***************************************************************************)
C22_ProtocolOrder ==
    [][/\ PollStep =>
              /\ Len(issued) > 0
              /\ issued[Len(issued)].state = "SUBMITTED"
              /\ ~startReply.error
              /\ fetched = <<>> /\ outcome.kind = "none"
       /\ WaitEndStep => polls >= 1
       /\ FetchStep =>
              /\ polls >= 1
              /\ sawTerminal
              /\ PolledState = "SUCCEEDED"
              /\ outcome.kind = "none"
              /\ pc' \notin {"wait", "get_query_results"}
       /\ serviceError => ~(SubmitStep \/ PollStep \/ FetchStep)
       /\ (SubmitStep \/ PollStep \/ FetchStep) /\ serviceError' =>
              pc' = "raised"]_vars

C22_Witness ==
    /\ outcome.kind = "returned"
    /\ outcome.by = "results"
    /\ polls >= 2
    /\ PolledState = "SUCCEEDED"
    /\ Len(issued) = 2


\* the executions submitted that no status call has reported terminal
InFlight == {j \in 1..Len(issued) : issued[j].state = "SUBMITTED"}

\* the region of the j-th query handed to the service
RegionOf(j) == issued[j].partition[1][2]

(***************************************************************************)
(* C23: a pass is sequential: at most one execution is in flight; the ADDs *)
(* go by the order of the region list; the DROP of a region is submitted   *)
(* only after the ADD of that region reached SUCCEEDED, the ADD of the     *)
(* next region only after the DROP before it, if there is one, reached     *)
(* SUCCEEDED; after the first query that fails no query is submitted.      *)
(***************************************************************************)
C23_Sequential ==
    /\ Cardinality(InFlight) <= 1
    /\ \A j \in 1..Len(issued) :
           /\ j < Len(issued) => issued[j].state = "SUCCEEDED" /\ ~issued[j].error
           /\ issued[j].action = S_ADD =>
                  /\ Cardinality({i \in Issued(S_ADD) : i <= j}) <= Len(regions)
                  /\ RegionOf(j) = regions[Cardinality({i \in Issued(S_ADD) : i <= j})]
           /\ issued[j].action = S_DROP =>
                  /\ j > 1
                  /\ issued[j - 1].action = S_ADD
                  /\ issued[j - 1].state = "SUCCEEDED"
                  /\ RegionOf(j) = RegionOf(j - 1)
    /\ pc \in {"start_query", "wait", "get_query_results"} /\ Len(issued) > 0 =>
           \/ pc = "start_query" /\ InFlight = {}
           \/ pc # "start_query" /\ ~issued[Len(issued)].error

C23_Witness ==
    /\ Len(issued) = 4
    /\ issued[3].action = S_ADD
    /\ issued[4].action = S_DROP
    /\ RegionOf(1) # RegionOf(3)
    /\ issued[4].state = "SUCCEEDED"


\* no call of the query service fails, and no lookup of the S3 helper
NoServiceErrors == ~serviceError /\ failedLookups = {}

\* a status call of every wait reports a terminal status
TerminalReported == (pc = "wait") ~> (status \in {"SUCCEEDED", "FAILED", "CANCELLED"})

(***************************************************************************)
(* C24: if no service call fails and the status service in the end reports *)
(* a terminal status for every execution submitted, every execute_and_wait *)
(* ends, by returning or by raising, and so does lambda_handler.           *)
(***************************************************************************)
C24_Terminates ==
    ([]NoServiceErrors /\ TerminalReported) =>
        /\ (pc \in {"wait", "get_query_results"}) ~> (outcome.kind # "none")
        /\ <>(pc \in {"returned", "raised"})

C24_Witness ==
    /\ pc = "returned"
    /\ NoServiceErrors
    /\ Len(issued) = 4
    /\ polls >= 2
    /\ PolledState = "SUCCEEDED"

=============================================================================
